---- MODULE Spec2Model ----
(***************************************************************************)
(* ServerListViewSet.list of djchat/server/views.py as a state machine.    *)
(*                                                                         *)
(* State: the Server table (db), the id sequence of that table (next_id),  *)
(* the result cache of the QuerySet object bound to the class attribute    *)
(* ServerListViewSet.queryset (result_cache), and the request in service   *)
(* together with its response (call).  A view instance lives for one       *)
(* request, so self.queryset starts every call as the class attribute and  *)
(* every assignment to it is local to the call; the QuerySet object the    *)
(* class attribute names is the one thing that outlives a call.            *)
(*                                                                         *)
(* Text values that the code parses (qty, by_serverid) are sequences of    *)
(* one-character strings; values that are only compared (category and the  *)
(* two flags) are strings.                                                 *)
(***************************************************************************)
EXTENDS Integers, Sequences, FiniteSets, TLC

VARIABLES db, next_id, result_cache, call

vars == <<db, next_id, result_cache, call>>

-----------------------------------------------------------------------------
(* Bounds of the model *)

\* the Server table holds at most MaxServers rows
MaxServers == 2
\* ids the table's sequence hands out: 1..MaxId
MaxId == 2

-----------------------------------------------------------------------------
(* Optional values: Python's None and a present value *)

None == [present |-> FALSE]
Some(v) == [present |-> TRUE, value |-> v]

\* Python truthiness of an optional text value: None and the empty text are false
StrTruthy(o) == o.present /\ o.value # ""
SeqTruthy(o) == o.present /\ o.value # <<>>

-----------------------------------------------------------------------------
(* int(text): surrounding blanks are stripped, one optional sign, then one *)
(* or more decimal digits                                                   *)

Digits == <<"0", "1", "2", "3", "4", "5", "6", "7", "8", "9">>

IsDigit(c) == \E i \in 1..10 : Digits[i] = c
DigitValue(c) == (CHOOSE i \in 1..10 : Digits[i] = c) - 1

RECURSIVE LStrip(_)
LStrip(s) == IF s # <<>> /\ Head(s) = " " THEN LStrip(Tail(s)) ELSE s

RECURSIVE RStrip(_)
RStrip(s) == IF s # <<>> /\ s[Len(s)] = " " THEN RStrip(SubSeq(s, 1, Len(s) - 1)) ELSE s

Strip(s) == RStrip(LStrip(s))

HasSign(s) == s # <<>> /\ Head(s) \in {"+", "-"}
Unsigned(s) == IF HasSign(s) THEN Tail(s) ELSE s

RECURSIVE DigitsValue(_, _)
DigitsValue(s, acc) ==
    IF s = <<>> THEN acc ELSE DigitsValue(Tail(s), 10 * acc + DigitValue(Head(s)))

\* int(s) returns a value (otherwise it raises ValueError)
IsInt(s) ==
    LET u == Unsigned(Strip(s))
    IN  u # <<>> /\ \A i \in 1..Len(u) : IsDigit(u[i])

\* the value int(s) returns
ParseInt(s) ==
    LET t == Strip(s)
        n == DigitsValue(Unsigned(t), 0)
    IN  IF HasSign(t) /\ Head(t) = "-" THEN 0 - n ELSE n

-----------------------------------------------------------------------------
(* The data: users, categories, Server rows *)

Users == {1, 2}
CategoryNames == {"Gaming", "Education"}

\* request.user: an authenticated user, or the anonymous user
AnonymousUser == [is_authenticated |-> FALSE, id |-> 0]
AuthUser(u) == [is_authenticated |-> TRUE, id |-> u]

\* a row of the Server table
ServerRow(i, c, m) == [id |-> i, category |-> c, member |-> m]

-----------------------------------------------------------------------------
(* QuerySets.  A QuerySet is lazy: it is the description of a query, run    *)
(* against the table when it is iterated or asked exists().  shared marks   *)
(* the QuerySet object of the class attribute, the only one with a result   *)
(* cache that outlives a call; every filter/annotate/slice returns a clone  *)
(* without a cache.  A slice of a QuerySet whose cache is filled is a plain *)
(* list cut from the cache (rows).                                          *)

\* Server.objects.all(), the class attribute
BaseQuerySet ==
    [shared |-> TRUE, category |-> None, member |-> None, annotated |-> FALSE,
     id |-> None, high |-> None, rows |-> None]

Clone(q) == [q EXCEPT !.shared = FALSE]

\* .filter(category__name=name)
FilterCategory(q, name) == [Clone(q) EXCEPT !.category = Some(name)]

\* .filter(member=user_id): an inner join with the membership table
FilterMember(q, user_id) == [Clone(q) EXCEPT !.member = Some(user_id)]

\* .annotate(num_members=Count("member")): counts the rows of the membership
\* join the query already has, so a member filter applied before it narrows
\* what is counted
Annotate(q) == [Clone(q) EXCEPT !.annotated = TRUE]

\* .filter(id=n)
FilterId(q, n) == [Clone(q) EXCEPT !.id = Some(n)]

\* does a table row satisfy the WHERE clause of q
Matches(q, s) ==
    /\ q.category.present => s.category = q.category.value
    /\ q.member.present => q.member.value \in s.member
    /\ q.id.present => s.id = q.id.value

\* COUNT over the membership rows joined to s under q
CountMember(q, s) ==
    IF q.member.present THEN Cardinality(s.member \cap {q.member.value})
    ELSE Cardinality(s.member)

\* the model instance built from a table row under q
Instance(q, s) ==
    [id |-> s.id, category |-> s.category,
     num_members |-> IF q.annotated THEN Some(CountMember(q, s)) ELSE None]

RECURSIVE MapInstance(_, _)
MapInstance(q, rs) ==
    IF rs = <<>> THEN <<>>
    ELSE <<Instance(q, Head(rs))>> \o MapInstance(q, Tail(rs))

Min(a, b) == IF a < b THEN a ELSE b

\* the first n elements of a sequence (n >= 0)
Take(rs, n) == SubSeq(rs, 1, Min(n, Len(rs)))

\* run the query q against the table
Execute(q, table) ==
    LET hit == SelectSeq(table, LAMBDA s : Matches(q, s))
        cut == IF q.high.present THEN Take(hit, q.high.value) ELSE hit
    IN  MapInstance(q, cut)

\* .exists(): a query of its own unless the QuerySet holds a result cache
Exists(q, table, cache) ==
    IF q.rows.present THEN q.rows.value # <<>>
    ELSE IF q.shared /\ cache.present THEN cache.value # <<>>
    ELSE Execute(q, table) # <<>>

\* q[:n] for n >= 0: a list cut from the result cache when there is one,
\* a clone with a LIMIT otherwise
Slice(q, n, cache) ==
    IF q.shared /\ cache.present
    THEN [Clone(q) EXCEPT !.rows = Some(Take(cache.value, n))]
    ELSE [Clone(q) EXCEPT !.high = Some(n)]

\* iterating q: the shared QuerySet answers from its result cache once it is
\* filled; anything else runs its query
Iterate(q, table, cache) ==
    IF q.rows.present THEN q.rows.value
    ELSE IF q.shared /\ cache.present THEN cache.value
    ELSE Execute(q, table)

\* the result cache of the shared QuerySet after q was iterated
CacheAfterIterate(q, table, cache) ==
    IF q.shared /\ ~cache.present THEN Some(Execute(q, table)) ELSE cache

-----------------------------------------------------------------------------
(* ServerSerializer(queryset, many=True, context={"num_members": flag}).data *)

\* one serialized server: the num_members field is there only under the flag
Representation(inst, flag) ==
    IF flag
    THEN [id |-> inst.id, category |-> inst.category, num_members |-> inst.num_members]
    ELSE [id |-> inst.id, category |-> inst.category]

RECURSIVE ServerSerializer(_, _)
ServerSerializer(insts, flag) ==
    IF insts = <<>> THEN <<>>
    ELSE <<Representation(Head(insts), flag)>> \o ServerSerializer(Tail(insts), flag)

-----------------------------------------------------------------------------
(* The outcomes of list *)

Response(data) == [kind |-> "Response", data |-> data]
AuthenticationFailed == [kind |-> "AuthenticationFailed"]
ValidationError(detail) == [kind |-> "ValidationError", detail |-> detail]
\* the ValueError of int(qty) (or of a negative slice bound), which nothing catches
ValueError == [kind |-> "ValueError"]

ServerValueError == <<"Server value error">>
\* f"Server with id {by_serverid} not found"
ServerNotFound(by_serverid) == <<"Server with id ", by_serverid, " not found">>

\* a step of list either raises or goes on with a queryset
Raise(e) == [raised |-> Some(e)]
Continue(q) == [raised |-> None, queryset |-> q]

-----------------------------------------------------------------------------
(* list, step by step *)

\* a flag parse that also takes the capitalised spelling
IsTrue_AnyCase(o) == o \in {Some("true"), Some("True"), Some("TRUE")}

\* request.query_params.get(name) == "true"
IsTrue(o) == o = Some("true")

\* if category: self.queryset = self.queryset.filter(category__name=category)
CategoryStep(q, category) ==
    IF StrTruthy(category) THEN FilterCategory(q, category.value) ELSE q

\* if by_user: filter on membership for an authenticated user, else raise
ByUserStep(q, user, by_user) ==
    IF by_user
    THEN IF by_user /\ user.is_authenticated
         THEN Continue(FilterMember(q, user.id))
         ELSE Raise(AuthenticationFailed)
    ELSE Continue(q)

\* if with_num_members: annotate
NumMembersStep(q, with_num_members) ==
    IF with_num_members THEN Annotate(q) ELSE q

\* the id filter tried before the authentication check
ByServeridStep_ParseFirst(q, user, by_serverid, table, cache) ==
    IF SeqTruthy(by_serverid)
    THEN IF ~IsInt(by_serverid.value)
         THEN Raise(ValidationError(ServerValueError))
         ELSE IF ~user.is_authenticated
              THEN Raise(AuthenticationFailed)
              ELSE LET f == FilterId(q, ParseInt(by_serverid.value))
                   IN  IF ~Exists(f, table, cache)
                       THEN Raise(ValidationError(ServerNotFound(by_serverid.value)))
                       ELSE Continue(f)
    ELSE Continue(q)

\* the id filter without the except clause: the ValueError escapes
ByServeridStep_NoExcept(q, user, by_serverid, table, cache) ==
    IF SeqTruthy(by_serverid)
    THEN IF ~user.is_authenticated
         THEN Raise(AuthenticationFailed)
         ELSE IF ~IsInt(by_serverid.value)
              THEN Raise(ValueError)
              ELSE LET f == FilterId(q, ParseInt(by_serverid.value))
                   IN  IF ~Exists(f, table, cache)
                       THEN Raise(ValidationError(ServerNotFound(by_serverid.value)))
                       ELSE Continue(f)
    ELSE Continue(q)

\* the id filter without the exists() check
ByServeridStep_NoExists(q, user, by_serverid, table, cache) ==
    IF SeqTruthy(by_serverid)
    THEN IF ~user.is_authenticated
         THEN Raise(AuthenticationFailed)
         ELSE IF ~IsInt(by_serverid.value)
              THEN Raise(ValidationError(ServerValueError))
              ELSE Continue(FilterId(q, ParseInt(by_serverid.value)))
    ELSE Continue(q)

\* if by_serverid: authentication, then the id filter inside try/except
ByServeridStep(q, user, by_serverid, table, cache) ==
    IF SeqTruthy(by_serverid)
    THEN IF ~user.is_authenticated
         THEN Raise(AuthenticationFailed)
         ELSE IF ~IsInt(by_serverid.value)
              THEN Raise(ValidationError(ServerValueError))
              ELSE LET f == FilterId(q, ParseInt(by_serverid.value))
                   IN  IF ~Exists(f, table, cache)
                       THEN Raise(ValidationError(ServerNotFound(by_serverid.value)))
                       ELSE Continue(f)
    ELSE Continue(q)

\* if qty: self.queryset = self.queryset[: int(qty)]
QtyStep(q, qty, cache) ==
    IF SeqTruthy(qty)
    THEN IF ~IsInt(qty.value) \/ ParseInt(qty.value) < 0
         THEN Raise(ValueError)
         ELSE Continue(Slice(q, ParseInt(qty.value), cache))
    ELSE Continue(q)

\* the whole of list: its outcome and the result cache of the class-level
\* QuerySet when it returns
list(request, table, cache) ==
    LET qp == request.query_params
        by_user == IsTrue(qp.by_user)
        with_num_members == IsTrue(qp.with_num_members)
        s1 == CategoryStep(BaseQuerySet, qp.category)
        s2 == ByUserStep(s1, request.user, by_user)
        s3 == NumMembersStep(s2.queryset, with_num_members)
        s4 == ByServeridStep(s3, request.user, qp.by_serverid, table, cache)
        s5 == QtyStep(s4.queryset, qp.qty, cache)
    IN  IF s2.raised.present THEN [response |-> s2.raised.value, cache |-> cache]
        ELSE IF s4.raised.present THEN [response |-> s4.raised.value, cache |-> cache]
        ELSE IF s5.raised.present THEN [response |-> s5.raised.value, cache |-> cache]
        ELSE [response |-> Response(ServerSerializer(Iterate(s5.queryset, table, cache),
                                                     with_num_members)),
              cache |-> CacheAfterIterate(s5.queryset, table, cache)]

\* a list that deletes the first row it read
TableAfterList_Delete(table) == IF table = <<>> THEN table ELSE Tail(table)

\* what list writes to the Server table: nothing
TableAfterList(table) == table

-----------------------------------------------------------------------------
(* The requests of the model *)

CategoryValues == {None, Some("Gaming"), Some("gaming")}
QtyValues == {None, Some(<<"0">>), Some(<<"1">>), Some(<<"2">>), Some(<<"x">>)}
ByUserValues == {None, Some("true"), Some("True")}
ByServeridValues == {None, Some(<<"0", "1">>), Some(<<"x">>)}
WithNumMembersValues == {None, Some("true"), Some("1")}
Callers == {AnonymousUser, AuthUser(1)}

QueryParams ==
    [category : CategoryValues, qty : QtyValues, by_user : ByUserValues,
     by_serverid : ByServeridValues, with_num_members : WithNumMembersValues]

Requests == [query_params : QueryParams, user : Callers]

\* the member sets a server is created with
InitialMembers == {{2}, {1, 2}}

-----------------------------------------------------------------------------
(* The state machine *)

Init ==
    /\ db = <<>>
    /\ next_id = 1
    /\ result_cache = None
    /\ call = None

\* a request is served: list runs from start to end
List(request) ==
    /\ ~call.present
    /\ LET r == list(request, db, result_cache)
       IN  /\ call' = Some([request |-> request, db |-> db, result_cache |-> result_cache,
                            response |-> r.response])
           /\ result_cache' = r.cache
    /\ db' = TableAfterList(db)
    /\ UNCHANGED next_id

\* the response leaves the worker, which is free for the next request
Respond ==
    /\ call.present
    /\ call' = None
    /\ UNCHANGED <<db, next_id, result_cache>>

\* outside this view: a server is created
CreateServer(c, m) ==
    /\ ~call.present
    /\ Len(db) < MaxServers
    /\ next_id <= MaxId
    /\ db' = Append(db, ServerRow(next_id, c, m))
    /\ next_id' = next_id + 1
    /\ UNCHANGED <<result_cache, call>>

\* outside this view: a server is deleted
DeleteServer(i) ==
    /\ ~call.present
    /\ i \in 1..Len(db)
    /\ db' = SubSeq(db, 1, i - 1) \o SubSeq(db, i + 1, Len(db))
    /\ UNCHANGED <<next_id, result_cache, call>>

\* outside this view: a user joins a server
JoinServer(i, u) ==
    /\ ~call.present
    /\ i \in 1..Len(db)
    /\ u \notin db[i].member
    /\ db' = [db EXCEPT ![i].member = @ \cup {u}]
    /\ UNCHANGED <<next_id, result_cache, call>>

Next ==
    \/ \E request \in Requests : List(request)
    \/ Respond
    \/ \E c \in CategoryNames, m \in InitialMembers : CreateServer(c, m)
    \/ \E i \in 1..MaxServers : DeleteServer(i)
    \/ \E i \in 1..MaxServers, u \in Users : JoinServer(i, u)

Spec == Init /\ [][Next]_vars

-----------------------------------------------------------------------------
(* The request in service, as the properties below read it *)

Req == call.value.request
Params == call.value.request.query_params
Caller == call.value.request.user
Resp == call.value.response
\* the Server table and the class-level result cache when the call began
DbAtCall == call.value.db
CacheAtCall == call.value.result_cache

Succeeded == call.present /\ Resp.kind = "Response"

\* the integer a text names
Number(o) == ParseInt(o.value)

\* the supplied filters, each as a predicate on a server of the table
InCategory(s) == StrTruthy(Params.category) => s.category = Params.category.value
HasCaller(s) == Params.by_user = Some("true") => Caller.id \in s.member
HasId(s) == SeqTruthy(Params.by_serverid) => s.id = Number(Params.by_serverid)

\* the servers of the table that pass every supplied filter, in table order,
\* filtered in the order id, membership, category
Surviving ==
    SelectSeq(SelectSeq(SelectSeq(DbAtCall, HasId), HasCaller), InCategory)

\* the same with qty applied last
Expected ==
    IF SeqTruthy(Params.qty) THEN Take(Surviving, Number(Params.qty)) ELSE Surviving

\* the response lists exactly the servers rs, in that order
Lists(rs) ==
    /\ Len(Resp.data) = Len(rs)
    /\ \A i \in 1..Len(rs) :
          Resp.data[i].id = rs[i].id /\ Resp.data[i].category = rs[i].category

\* the table row with the id of a listed server
RowOf(r) == CHOOSE s \in {DbAtCall[i] : i \in 1..Len(DbAtCall)} : s.id = r.id

\* no filter supplied: no parameters, or only qty
Unfiltered ==
    /\ ~Params.category.present
    /\ ~Params.by_user.present
    /\ ~Params.by_serverid.present
    /\ ~Params.with_num_members.present

-----------------------------------------------------------------------------
(* C1 *)

\* C1: no filter state is carried between invocations: the outcome of every
\* call is the outcome of the same request served from the full base
\* collection with nothing left over from an earlier call.
C1_NoStateCarried ==
    call.present => Resp = list(Req, DbAtCall, None).response

-----------------------------------------------------------------------------
(* C2 *)

\* C2: a successful list returns exactly the servers of the table that
\* satisfy every supplied filter, in table order, cut to the first qty; the
\* filters taken in another order (id, membership, category) and qty last
\* give the same.
C2_FilteredByAnd ==
    Succeeded =>
        /\ Lists(Expected)
        /\ \A i \in 1..Len(Resp.data) :
              \E j \in 1..Len(DbAtCall) : DbAtCall[j].id = Resp.data[i].id

-----------------------------------------------------------------------------
(* C3 *)

\* C3: for an unauthenticated caller, a request with by_user "true" or with a
\* non-empty by_serverid fails with AuthenticationFailed whatever else it
\* carries: never a ValidationError, never a result.
C3_AuthenticationFirst ==
    (/\ call.present
     /\ ~Caller.is_authenticated
     /\ (Params.by_user = Some("true") \/ SeqTruthy(Params.by_serverid)))
    => Resp = AuthenticationFailed

\* an anonymous request whose by_serverid is no integer, without by_user, was refused
C3_Witness ==
    /\ call.present
    /\ ~Caller.is_authenticated
    /\ Params.by_user # Some("true")
    /\ Params.by_serverid = Some(<<"x">>)
    /\ DbAtCall # <<>>
    /\ Resp = AuthenticationFailed

-----------------------------------------------------------------------------
(* C4 *)

\* C4: for an authenticated caller, a non-empty by_serverid that is no integer
\* fails with ValidationError "Server value error" whatever category, by_user,
\* with_num_members and qty are.
C4_ServerValueError ==
    (/\ call.present
     /\ Caller.is_authenticated
     /\ SeqTruthy(Params.by_serverid)
     /\ ~IsInt(Params.by_serverid.value))
    => Resp = ValidationError(<<"Server value error">>)

\* an authenticated request with a malformed by_serverid, a malformed qty and
\* every other parameter set got the value error
C4_Witness ==
    /\ call.present
    /\ Caller.is_authenticated
    /\ Params.by_serverid = Some(<<"x">>)
    /\ Params.qty = Some(<<"x">>)
    /\ Params.by_user = Some("true")
    /\ Params.with_num_members = Some("true")
    /\ Params.category = Some("Gaming")
    /\ Resp = ValidationError(<<"Server value error">>)

-----------------------------------------------------------------------------
(* C5 *)

\* the request of C5: an authenticated caller and an integer by_serverid
C5_Case ==
    /\ call.present
    /\ Caller.is_authenticated
    /\ SeqTruthy(Params.by_serverid)
    /\ IsInt(Params.by_serverid.value)

C5_NotFound ==
    Resp = ValidationError(<<"Server with id ", Params.by_serverid.value, " not found">>)

\* qty is absent, empty or a non-negative integer
C5_QtyUsable ==
    SeqTruthy(Params.qty) => IsInt(Params.qty.value) /\ Number(Params.qty) >= 0

\* C5 as stated: the request fails with "Server with id {by_serverid} not
\* found" exactly when no server with that id survives the category and
\* membership filters, and does not fail when one survives.
C5_NotFoundOrSuccess ==
    C5_Case =>
        /\ C5_NotFound <=> Surviving = <<>>
        /\ Surviving # <<>> => Resp.kind = "Response"

\* C5 amended: the request fails with "Server with id {by_serverid} not found"
\* exactly when no server with that id survives the category and membership
\* filters; when one survives it raises neither ValidationError nor
\* AuthenticationFailed, and it succeeds exactly when qty is absent, empty or
\* a non-negative integer (otherwise the ValueError of int(qty) escapes).
C5_NotFoundExactly ==
    C5_Case =>
        /\ C5_NotFound <=> Surviving = <<>>
        /\ Surviving # <<>> =>
              /\ Resp.kind = (IF C5_QtyUsable THEN "Response" ELSE "ValueError")

\* the server exists but the caller is no member of it: not found, with the
\* id text as it was supplied
C5_Witness ==
    /\ C5_Case
    /\ Params.by_user = Some("true")
    /\ \E i \in 1..Len(DbAtCall) :
          DbAtCall[i].id = Number(Params.by_serverid) /\ Caller.id \notin DbAtCall[i].member
    /\ Resp = ValidationError(<<"Server with id ", <<"0", "1">>, " not found">>)

-----------------------------------------------------------------------------
(* C6 *)

\* C6: qty=0 yields an empty result whatever the other filters are, and a qty
\* larger than the number of servers surviving the other filters returns all
\* of them, in the same order.
C6_QtyZeroAndLarge ==
    (Succeeded /\ SeqTruthy(Params.qty)) =>
        /\ Number(Params.qty) = 0 => Resp.data = <<>>
        /\ Number(Params.qty) > Len(Surviving) => Lists(Surviving)

-----------------------------------------------------------------------------
(* C7 *)

\* C7: in a successful response every server carries num_members if and only
\* if with_num_members was "true", and the value is the number of distinct
\* members of that server, also next to category, by_user, by_serverid or qty.
C7_NumMembers ==
    Succeeded =>
        \A i \in 1..Len(Resp.data) :
            /\ "num_members" \in DOMAIN Resp.data[i]
                  <=> Params.with_num_members = Some("true")
            /\ "num_members" \in DOMAIN Resp.data[i] =>
                  Resp.data[i].num_members = Some(Cardinality(RowOf(Resp.data[i]).member))

-----------------------------------------------------------------------------
(* C8 *)

\* the request in service with one parameter left out
Without(name) == [Req EXCEPT !.query_params[name] = None]

\* C8: a by_user or with_num_members that is not exactly "true" changes
\* nothing: the outcome is the outcome of the same request without the flag,
\* so by_user asks for no authentication and filters nothing, and no
\* num_members is added.
C8_ExactTrue ==
    call.present =>
        /\ Params.by_user # Some("true") =>
              /\ Resp = list(Without("by_user"), DbAtCall, CacheAtCall).response
              /\ ~SeqTruthy(Params.by_serverid) => Resp # AuthenticationFailed
        /\ Params.with_num_members # Some("true") =>
              /\ Resp = list(Without("with_num_members"), DbAtCall, CacheAtCall).response
              /\ Resp.kind = "Response" =>
                    \A i \in 1..Len(Resp.data) : "num_members" \notin DOMAIN Resp.data[i]

\* an anonymous request with by_user=True and with_num_members=1 was answered
\* with servers the caller is no member of
C8_Witness ==
    /\ Succeeded
    /\ ~Caller.is_authenticated
    /\ Params.by_user = Some("True")
    /\ Params.with_num_members = Some("1")
    /\ Resp.data # <<>>

-----------------------------------------------------------------------------
(* C9 *)

\* C9: list is a pure read: a step that serves a request, whatever its
\* outcome, leaves the Server table (rows, categories, member sets) and its
\* id sequence as they were.
C9_PureRead ==
    [][(~call.present /\ call'.present) => (db' = db /\ next_id' = next_id)]_vars

\* a request that failed with a ValidationError was served over a table with
\* servers in it, which are still there
C9_Witness ==
    /\ call.present
    /\ Resp.kind = "ValidationError"
    /\ DbAtCall # <<>>
    /\ db = DbAtCall

-----------------------------------------------------------------------------
(* C10 *)

\* C10: a list call with no filter (no parameters, or only qty) returns the
\* table as it is at the time of the call, not rows read by an earlier call.
C10_FreshRows ==
    (Succeeded /\ Unfiltered) =>
        Lists(IF SeqTruthy(Params.qty) THEN Take(DbAtCall, Number(Params.qty)) ELSE DbAtCall)

====
